---- MODULE Spec2Model ----
(***************************************************************************)
(* TaskMaster: the TaskViewModel store (taskmaster_viewmodel.js), the     *)
(* TaskModel entity and the TaskView with its touch handlers and debug     *)
(* functions (taskmaster_view.js), over a localStorage item.               *)
(*                                                                         *)
(* JavaScript values are records of one shape, so that any two of them can *)
(* be compared: tag names the type, n the number, s the characters of a    *)
(* string, b the boolean.  A string is the sequence of its characters.     *)
(***************************************************************************)
EXTENDS Integers, Sequences, FiniteSets, TLC

VARIABLES
    tasks,          \* this.tasks
    currentFilter,  \* this.currentFilter
    storage,        \* the localStorage item 'tasks'
    quota,          \* how many tasks the item can hold before setItem throws
    last,           \* the call made last and what it returned
    writeFailed,    \* a write of this instance has failed since it was constructed
    other,          \* the TaskViewModel of a second tab over the same item
    view            \* the TaskView: its fields and the elements of #tasksList

vars == <<tasks, currentFilter, storage, quota, last, writeFailed, other, view>>

-----------------------------------------------------------------------------
(* Bounds *)

MaxTasks == 2

MaxTick == 1

MaxTabTasks == 1

MaxPendingTimeouts == 1

MaxStoredBeforeDemo == 1

-----------------------------------------------------------------------------
(* JavaScript values *)

JSUndefined == [tag |-> "undefined", n |-> 0, s |-> <<>>, b |-> FALSE]

JSNumber(n) == [tag |-> "number", n |-> n, s |-> <<>>, b |-> FALSE]

JSString(s) == [tag |-> "string", n |-> 0, s |-> s, b |-> FALSE]

JSBoolean(b) == [tag |-> "boolean", n |-> 0, s |-> <<>>, b |-> b]

\* ToBoolean, as `!text` and `if (stored)` apply it
Truthy(v) ==
    CASE v.tag = "undefined" -> FALSE
      [] v.tag = "number" -> v.n # 0
      [] v.tag = "string" -> v.s # <<>>
      [] OTHER -> v.b

\* A Date: its time value in milliseconds, or Invalid Date
DateOf(ms) == [valid |-> TRUE, ms |-> ms]

InvalidDate == [valid |-> FALSE, ms |-> 0]

\* The readings of the millisecond clock (Date.now(), new Date())
Clock == 999 .. (999 + MaxTick)

-----------------------------------------------------------------------------
(* String.prototype.trim *)

IsSpace(c) == c = " "

RECURSIVE TrimStart(_)
TrimStart(s) ==
    IF s # <<>> /\ IsSpace(Head(s)) THEN TrimStart(Tail(s)) ELSE s

RECURSIVE TrimEnd(_)
TrimEnd(s) ==
    IF s # <<>> /\ IsSpace(s[Len(s)]) THEN TrimEnd(SubSeq(s, 1, Len(s) - 1)) ELSE s

NoTrim(s) == s

trim(s) == TrimEnd(TrimStart(s))

-----------------------------------------------------------------------------
(* Date.prototype.toISOString and new Date(string), for the time values    *)
(* 0 .. 9999 ms: "1970-01-01T00:00:0S.mmmZ"                                *)

Digits == <<"0", "1", "2", "3", "4", "5", "6", "7", "8", "9">>

DigitChar(d) == Digits[d + 1]

DigitVal(c) == CHOOSE d \in 0 .. 9 : Digits[d + 1] = c

IsDigit(c) == \E d \in 0 .. 9 : Digits[d + 1] = c

IsoPrefix == "1970-01-01T00:00:0"

ToISOStringSeconds(d) ==
    <<IsoPrefix, DigitChar(d.ms \div 1000), ".", "0", "0", "0", "Z">>

\* the characters of toISOString() of a valid date
toISOString(d) ==
    <<IsoPrefix,
      DigitChar(d.ms \div 1000),
      ".",
      DigitChar((d.ms % 1000) \div 100),
      DigitChar((d.ms % 100) \div 10),
      DigitChar(d.ms % 10),
      "Z">>

IsIsoString(v) ==
    /\ v.tag = "string"
    /\ Len(v.s) = 7
    /\ v.s[1] = IsoPrefix /\ v.s[3] = "." /\ v.s[7] = "Z"
    /\ \A i \in {2, 4, 5, 6} : IsDigit(v.s[i])

\* new Date(v)
NewDate(v) ==
    IF IsIsoString(v)
    THEN DateOf(DigitVal(v.s[2]) * 1000 + DigitVal(v.s[4]) * 100
                + DigitVal(v.s[5]) * 10 + DigitVal(v.s[6]))
    ELSE InvalidDate

-----------------------------------------------------------------------------
(* TaskModel *)

\* constructor(id, text, completed = false, createdAt = new Date())
TaskModel(id, text, completed, createdAt) ==
    [id |-> id, text |-> text, completed |-> completed, createdAt |-> createdAt]

\* toJSON(): defined when createdAt is valid; toISOString throws a RangeError
\* on Invalid Date
toJSONThrows(t) == ~t.createdAt.valid

toJSON(t) ==
    [jt |-> "object",
     id |-> t.id,
     text |-> t.text,
     completed |-> JSBoolean(t.completed),
     createdAt |-> JSString(toISOString(t.createdAt))]

\* A JSON value that is not an object: null or a number.  Reading a property
\* of a number gives undefined; reading one of null throws a TypeError.
JSONNull ==
    [jt |-> "null", id |-> JSUndefined, text |-> JSUndefined,
     completed |-> JSUndefined, createdAt |-> JSUndefined]

JSONNumber ==
    [jt |-> "number", id |-> JSUndefined, text |-> JSUndefined,
     completed |-> JSUndefined, createdAt |-> JSUndefined]

\* static fromJSON(json), json not null; an undefined third argument takes
\* the default false
fromJSON(json) ==
    TaskModel(json.id,
              json.text,
              IF json.completed.tag = "undefined" THEN FALSE ELSE json.completed.b,
              NewDate(json.createdAt))

-----------------------------------------------------------------------------
(* The localStorage item 'tasks'.  getItem gives null or a string; a string *)
(* is empty, or not JSON, or the JSON text of a value (jt, elems): what     *)
(* JSON.stringify writes and JSON.parse reads back.                         *)

NoItem == [kind |-> "null", jt |-> "none", elems |-> <<>>]

EmptyString == [kind |-> "string", jt |-> "empty", elems |-> <<>>]

Unparseable == [kind |-> "string", jt |-> "invalid", elems |-> <<>>]

JSONText(jt, elems) == [kind |-> "string", jt |-> jt, elems |-> elems]

\* what the item may hold when the page is first opened
InitialItems ==
    {NoItem, EmptyString, Unparseable,
     JSONText("null", <<>>), JSONText("object", <<>>),
     JSONText("array", <<JSONNull>>), JSONText("array", <<JSONNumber>>)}

\* if (stored)
StoredTruthy(item) == item.kind = "string" /\ item.jt # "empty"

\* Array.prototype.map with TaskModel.fromJSON / toJSON
MapFromJSON(elems) == [i \in 1 .. Len(elems) |-> fromJSON(elems[i])]

MapToJSON(list) == [i \in 1 .. Len(list) |-> toJSON(list[i])]

\* the try block of loadTasks throws: JSON.parse on text that is not JSON,
\* parsed.map on a value that is no array, fromJSON on a null element
LoadThrows(item) ==
    /\ StoredTruthy(item)
    /\ \/ item.jt # "array"
       \/ \E i \in 1 .. Len(item.elems) : item.elems[i].jt = "null"

\* loadTasks(), from this.tasks = cur
loadTasks(cur, item) ==
    IF ~StoredTruthy(item) THEN [tasks |-> cur, threw |-> FALSE]
    ELSE IF LoadThrows(item) THEN [tasks |-> <<>>, threw |-> FALSE]
    ELSE [tasks |-> MapFromJSON(item.elems), threw |-> FALSE]

\* the try block of saveTasks throws: toJSON on a task with an Invalid Date,
\* or setItem when the list exceeds the quota (QuotaExceededError)
SaveThrows(list, q) ==
    \/ \E i \in 1 .. Len(list) : toJSONThrows(list[i])
    \/ Len(list) > q

SaveTasksNoCatch(list, item, q) ==
    IF SaveThrows(list, q)
    THEN [storage |-> item, saved |-> FALSE, threw |-> TRUE]
    ELSE [storage |-> JSONText("array", MapToJSON(list)), saved |-> TRUE, threw |-> FALSE]

SaveTasksMerging(list, item, q) ==
    IF SaveThrows(list, q)
    THEN [storage |-> item, saved |-> FALSE, threw |-> FALSE]
    ELSE [storage |-> JSONText("array",
                               MapToJSON(list)
                                  \o (IF item.jt = "array" THEN item.elems ELSE <<>>)),
          saved |-> TRUE, threw |-> FALSE]

\* saveTasks(), with this.tasks = list
saveTasks(list, item, q) ==
    IF SaveThrows(list, q)
    THEN [storage |-> item, saved |-> FALSE, threw |-> FALSE]
    ELSE [storage |-> JSONText("array", MapToJSON(list)), saved |-> TRUE, threw |-> FALSE]

-----------------------------------------------------------------------------
(* Array helpers of the view model *)

Push(list, t) == Append(list, t)

\* Array.prototype.unshift
unshift(list, t) == <<t>> \o list

\* index of the task Array.prototype.find(t => t.id === id) returns, 0 if none
RECURSIVE findFrom(_, _, _)
findFrom(list, id, i) ==
    IF i > Len(list) THEN 0
    ELSE IF list[i].id = id THEN i
    ELSE findFrom(list, id, i + 1)

FindLast(list, id) ==
    IF \E i \in 1 .. Len(list) : list[i].id = id
    THEN CHOOSE i \in 1 .. Len(list) :
            /\ list[i].id = id
            /\ \A j \in (i + 1) .. Len(list) : list[j].id # id
    ELSE 0

find(list, id) == findFrom(list, id, 1)

\* filter(t => t.id !== id)
RECURSIVE filterNotId(_, _)
filterNotId(list, id) ==
    IF list = <<>> THEN <<>>
    ELSE IF Head(list).id # id
         THEN <<Head(list)>> \o filterNotId(Tail(list), id)
         ELSE filterNotId(Tail(list), id)

\* filter(t => t.completed) for flag = TRUE, filter(t => !t.completed) for FALSE
RECURSIVE filterCompleted(_, _)
filterCompleted(list, flag) ==
    IF list = <<>> THEN <<>>
    ELSE IF Head(list).completed = flag
         THEN <<Head(list)>> \o filterCompleted(Tail(list), flag)
         ELSE filterCompleted(Tail(list), flag)

-----------------------------------------------------------------------------
(* What a call returned: undefined, a boolean, a task array, the statistics *)
(* object, or an exception that escaped to the caller                       *)

Ret(kind, b, list, total, completed, active) ==
    [kind |-> kind, b |-> b, list |-> list,
     total |-> total, completed |-> completed, active |-> active]

RetUndefined == Ret("undefined", FALSE, <<>>, 0, 0, 0)

RetBoolean(b) == Ret("boolean", b, <<>>, 0, 0, 0)

RetArray(list) == Ret("array", FALSE, list, 0, 0, 0)

RetStats(total, completed, active) == Ret("stats", FALSE, <<>>, total, completed, active)

RetThrown == Ret("exception", FALSE, <<>>, 0, 0, 0)

Called(op, ret) == [op |-> op, ret |-> ret]

-----------------------------------------------------------------------------
(* TaskViewModel *)

Filters == {"all", "active", "completed", "done"}

\* the arguments of addTask
Texts ==
    {JSUndefined,
     JSString(<<>>), JSString(<<" ">>), JSString(<<" ", " ">>),
     JSString(<<"a">>), JSString(<<" ", "a", " ", "b", " ">>)}

\* the arguments of toggleTask and deleteTask
Ids == {JSNumber(n) : n \in Clock} \cup {JSUndefined}

\* constructor(), over an item and a quota
Construct(item, q) ==
    LET ld == loadTasks(<<>>, item) IN
    /\ tasks = ld.tasks
    /\ currentFilter = "all"
    /\ storage = item
    /\ quota = q
    /\ last = Called("constructor", IF ld.threw THEN RetThrown ELSE RetUndefined)
    /\ writeFailed = FALSE

\* the page is reloaded: a new TaskViewModel over the same item
Reload ==
    LET ld == loadTasks(<<>>, storage) IN
    /\ tasks' = ld.tasks
    /\ currentFilter' = "all"
    /\ last' = Called("constructor", IF ld.threw THEN RetThrown ELSE RetUndefined)
    /\ writeFailed' = FALSE
    /\ UNCHANGED <<storage, quota>>

\* The clock does not run backwards: a reading is not before the creation of
\* a task that is already stored
ClockReading(list, now) ==
    \A i \in 1 .. Len(list) : list[i].createdAt.valid => list[i].createdAt.ms <= now

\* this.tasks = list; this.saveTasks(); then the call returns ret
Mutate(op, list, ret) ==
    LET sv == saveTasks(list, storage, quota) IN
    /\ tasks' = list
    /\ storage' = sv.storage
    /\ writeFailed' = (writeFailed \/ ~sv.saved)
    /\ last' = Called(op, IF sv.threw THEN RetThrown ELSE ret)
    /\ UNCHANGED <<currentFilter, quota>>

\* addTask(text), with the readings now1 of Date.now() and now2 of new Date()
AddTask(text) ==
    IF ~Truthy(text) \/ ~Truthy(JSString(trim(text.s)))
    THEN /\ last' = Called("addTask", RetBoolean(FALSE))
         /\ UNCHANGED <<tasks, currentFilter, storage, quota, writeFailed>>
    ELSE /\ Len(tasks) < MaxTasks
         /\ \E now1 \in Clock, now2 \in Clock :
               /\ now1 <= now2
               /\ ClockReading(tasks, now1)
               /\ Mutate("addTask",
                         unshift(tasks, TaskModel(JSNumber(now1), JSString(trim(text.s)),
                                                  FALSE, DateOf(now2))),
                         RetBoolean(TRUE))

MarkCompleted(list, i) == [list EXCEPT ![i].completed = TRUE]

\* task.completed = !task.completed, on the task at index i
flip(list, i) == [list EXCEPT ![i].completed = ~@]

\* what toggleTask(id) does to this.tasks = list, and whether it found a task
toggleTask(list, id) ==
    LET i == find(list, id) IN
    IF i # 0
    THEN [tasks |-> flip(list, i), found |-> TRUE]
    ELSE [tasks |-> list, found |-> FALSE]

\* toggleTask(id)
ToggleTask(id) ==
    LET r == toggleTask(tasks, id) IN
    IF r.found
    THEN Mutate("toggleTask", r.tasks, RetBoolean(TRUE))
    ELSE /\ last' = Called("toggleTask", RetBoolean(FALSE))
         /\ UNCHANGED <<tasks, currentFilter, storage, quota, writeFailed>>

DeleteTaskAlwaysSaves(id) == Mutate("deleteTask", filterNotId(tasks, id), RetUndefined)

\* deleteTask(id)
DeleteTask(id) ==
    LET list == filterNotId(tasks, id) IN
    IF Len(list) < Len(tasks)
    THEN Mutate("deleteTask", list, RetUndefined)
    ELSE /\ tasks' = list
         /\ last' = Called("deleteTask", RetUndefined)
         /\ UNCHANGED <<currentFilter, storage, quota, writeFailed>>

\* clearAllTasks()
ClearAllTasks == Mutate("clearAllTasks", <<>>, RetUndefined)

GetFilteredTasksSwapped(list, filter) ==
    CASE filter = "active" -> filterCompleted(list, TRUE)
      [] filter = "completed" -> filterCompleted(list, FALSE)
      [] OTHER -> list

\* the value getFilteredTasks() returns
getFilteredTasks(list, filter) ==
    CASE filter = "active" -> filterCompleted(list, FALSE)
      [] filter = "completed" -> filterCompleted(list, TRUE)
      [] OTHER -> list

\* getFilteredTasks()
GetFilteredTasks ==
    /\ last' = Called("getFilteredTasks", RetArray(getFilteredTasks(tasks, currentFilter)))
    /\ UNCHANGED <<tasks, currentFilter, storage, quota, writeFailed>>

SetFilterValidated(filter) ==
    /\ currentFilter' = (IF filter \in {"all", "active", "completed"} THEN filter ELSE currentFilter)
    /\ last' = Called("setFilter", RetUndefined)
    /\ UNCHANGED <<tasks, storage, quota, writeFailed>>

\* setFilter(filter)
SetFilter(filter) ==
    /\ currentFilter' = filter
    /\ last' = Called("setFilter", RetUndefined)
    /\ UNCHANGED <<tasks, storage, quota, writeFailed>>

GetStatsActiveIsTotal(list) ==
    RetStats(Len(list), Len(filterCompleted(list, TRUE)), Len(list))

\* the value getStats() returns
getStats(list) ==
    RetStats(Len(list), Len(filterCompleted(list, TRUE)), Len(filterCompleted(list, FALSE)))

\* getStats()
GetStats ==
    /\ last' = Called("getStats", getStats(tasks))
    /\ UNCHANGED <<tasks, currentFilter, storage, quota, writeFailed>>

-----------------------------------------------------------------------------
(* TaskView (taskmaster_view.js).  An element of #tasksList is a record of  *)
(* its data-id attribute, its style.transform and its style.opacity.       *)
(* Touch coordinates are whole pixels.                                     *)

\* the limits of handleTouchMove and handleTouchEnd, in pixels
SwipeMinDistance == 30

SwipeIndicatorDistance == 100

SwipeDeleteDistance == 150

\* style.opacity is 1 - |deltaX| / 300: the model keeps it in 300ths
OpacityDistance == 300

JSNaN == [tag |-> "NaN", n |-> 0, s |-> <<>>, b |-> FALSE]

Abs(n) == IF n < 0 THEN -n ELSE n

RECURSIVE DecimalDigits(_)
DecimalDigits(n) ==
    IF n < 10 THEN <<DigitChar(n)>>
    ELSE DecimalDigits(n \div 10) \o <<DigitChar(n % 10)>>

\* `${n}` for a whole number n
NumberToString(n) == IF n < 0 THEN <<"-">> \o DecimalDigits(-n) ELSE DecimalDigits(n)

\* `${v}` for a value v
TemplateString(v) ==
    CASE v.tag = "number" -> NumberToString(v.n)
      [] v.tag = "string" -> v.s
      [] v.tag = "boolean" -> IF v.b THEN <<"t", "r", "u", "e">> ELSE <<"f", "a", "l", "s", "e">>
      [] OTHER -> <<"u", "n", "d", "e", "f", "i", "n", "e", "d">>

RECURSIVE DigitsPrefix(_)
DigitsPrefix(s) ==
    IF s # <<>> /\ IsDigit(s[1]) THEN <<s[1]>> \o DigitsPrefix(Tail(s)) ELSE <<>>

RECURSIVE DigitsValue(_)
DigitsValue(ds) ==
    IF ds = <<>> THEN 0
    ELSE 10 * DigitsValue(SubSeq(ds, 1, Len(ds) - 1)) + DigitVal(ds[Len(ds)])

\* parseInt(s)
parseInt(s) ==
    LET t == TrimStart(s)
        signed == t # <<>> /\ t[1] \in {"-", "+"}
        ds == DigitsPrefix(IF signed THEN Tail(t) ELSE t)
    IN  IF ds = <<>> THEN JSNaN
        ELSE JSNumber(IF signed /\ t[1] = "-" THEN -DigitsValue(ds) ELSE DigitsValue(ds))

\* s.match(/-?\d+/)?.[0], the empty sequence where there is no match
RECURSIVE MatchSignedDigits(_)
MatchSignedDigits(s) ==
    IF s = <<>> THEN <<>>
    ELSE IF IsDigit(s[1]) THEN DigitsPrefix(s)
    ELSE IF s[1] = "-" /\ Len(s) >= 2 /\ IsDigit(s[2]) THEN <<"-">> \o DigitsPrefix(Tail(s))
    ELSE MatchSignedDigits(Tail(s))

\* `translateX(${deltaX}px)`
TranslateX(deltaX) ==
    <<"t", "r", "a", "n", "s", "l", "a", "t", "e", "X", "(">> \o NumberToString(deltaX) \o <<"p", "x", ")">>

\* transform ? parseInt(transform.match(/-?\d+/)?.[0] || 0) : 0
TransformDeltaX(transform) ==
    LET m == MatchSignedDigits(transform) IN
    IF transform = <<>> \/ m = <<>> THEN 0 ELSE parseInt(m).n

\* 1 - Math.abs(deltaX) / 300, in 300ths
OpacityOf(deltaX) == JSNumber(OpacityDistance - Abs(deltaX))

\* a div.task-item as renderTasks writes it
TaskItem(task) ==
    [id |-> TemplateString(task.id), transform |-> <<>>, opacity |-> JSString(<<>>)]

renderTasks(list) == [i \in 1 .. Len(list) |-> TaskItem(list[i])]

\* render(): the elements of #tasksList are made anew and the counters written
render(v, list, filter) ==
    [v EXCEPT !.items = renderTasks(getFilteredTasks(list, filter)),
              !.totalTasks = getStats(list).total,
              !.completedTasks = getStats(list).completed]

\* new TaskView(), over the TaskViewModel with this.tasks = list
NewView(list) ==
    render([touchStartX |-> 0, touchStartY |-> 0,
            currentSwipeElement |-> 0,   \* the place of the element in items, 0 for null
            items |-> <<>>, totalTasks |-> 0, completedTasks |-> 0,
            show |-> FALSE,              \* #swipeIndicator has the class 'show'
            timeouts |-> 0,              \* pending timeouts of hideSwipeIndicator
            event |-> "constructor",     \* the handler that ran last
            call |-> "none",             \* the call it made on the view model
            moved |-> FALSE,             \* a touchmove was handled since touchstart
            lastDeltaX |-> 0],           \* the deltaX of that touchmove
           list, "all")

\* the view is not looked at
NoView == NewView(<<>>)

Handled(v, event, call) == [v EXCEPT !.event = event, !.call = call]

ViewModelUnchanged == UNCHANGED <<tasks, currentFilter, storage, quota, last, writeFailed>>

\* handleAddTask(), with text in the input field.  One finger: no click
\* while an element is being swiped.
HandleAddTask(text) ==
    /\ view.currentSwipeElement = 0
    /\ AddTask(text)
    /\ view' = Handled(IF last'.ret = RetBoolean(TRUE)
                       THEN render(view, tasks', currentFilter')
                       ELSE view,
                       "handleAddTask", "addTask")

\* handleFilterChange(btn), with btn.dataset.filter = filter
HandleFilterChange(filter) ==
    /\ view.currentSwipeElement = 0
    /\ SetFilter(filter)
    /\ view' = Handled(render(view, tasks', currentFilter'), "handleFilterChange", "setFilter")

\* where a touch can be
TouchStartXs == {0, 200}

TouchXs == {0, 20, 150, 151, 200}

TouchYs == {0, 160}

\* handleTouchStart(e), target the place in items of the element touched,
\* 0 for a touch outside every task item.  One finger: no touchstart while
\* an element is being swiped.
HandleTouchStart(target, x, y) ==
    /\ view.currentSwipeElement = 0
    /\ view' = Handled(IF target = 0 THEN view
                       ELSE [view EXCEPT !.touchStartX = x,
                                         !.touchStartY = y,
                                         !.currentSwipeElement = target,
                                         !.moved = FALSE,
                                         !.lastDeltaX = 0],
                       "touchstart", "none")
    /\ ViewModelUnchanged

\* handleTouchMove(e), with the touch at (x, y)
HandleTouchMove(x, y) ==
    LET k == view.currentSwipeElement
        deltaX == x - view.touchStartX
        deltaY == y - view.touchStartY
        seen == [view EXCEPT !.moved = TRUE, !.lastDeltaX = deltaX]
    IN
    /\ view' = Handled(IF k = 0 THEN view
                       ELSE IF Abs(deltaX) > Abs(deltaY) /\ Abs(deltaX) > SwipeMinDistance
                       THEN [seen EXCEPT !.items[k].transform = TranslateX(deltaX),
                                         !.items[k].opacity = OpacityOf(deltaX),
                                         !.show = (@ \/ Abs(deltaX) > SwipeIndicatorDistance)]
                       ELSE seen,
                       "touchmove", "none")
    /\ ViewModelUnchanged

\* handleTouchEnd(e)
HandleTouchEnd ==
    LET k == view.currentSwipeElement IN
    IF k = 0
    THEN /\ view' = Handled(view, "touchend", "none")
         /\ ViewModelUnchanged
    ELSE /\ view.timeouts < MaxPendingTimeouts
         /\ IF Abs(TransformDeltaX(view.items[k].transform)) > SwipeDeleteDistance
            THEN /\ DeleteTask(parseInt(view.items[k].id))
                 /\ view' = Handled([render(view, tasks', currentFilter')
                                        EXCEPT !.currentSwipeElement = 0,
                                               !.timeouts = @ + 1],
                                    "touchend", "deleteTask")
            ELSE /\ view' = Handled([view EXCEPT !.items[k].transform = <<>>,
                                                 !.items[k].opacity = JSString(<<>>),
                                                 !.currentSwipeElement = 0,
                                                 !.timeouts = @ + 1],
                                    "touchend", "none")
                 /\ ViewModelUnchanged

\* a timeout of hideSwipeIndicator fires
HideSwipeIndicator ==
    /\ view.timeouts > 0
    /\ view' = Handled([view EXCEPT !.show = FALSE, !.timeouts = @ - 1], "timeout", "none")
    /\ ViewModelUnchanged

\* the texts of window.debug.addDemoData, in the order of its calls
Einkaufen ==
    <<"E", "i", "n", "k", "a", "u", "f", "e", "n", " ", "g", "e", "h", "e",
      "n">>

Email ==
    <<"E", "m", "a", "i", "l", " ", "a", "n", " ", "C", "h", "e", "f", " ",
      "s", "e", "n", "d", "e", "n">>

Projekt ==
    <<"P", "r", "o", "j", "e", "k", "t", "-", "P", "r", "ä", "s", "e", "n",
      "t", "a", "t", "i", "o", "n", " ", "v", "o", "r", "b", "e", "r", "e",
      "i", "t", "e", "n">>

Sport ==
    <<"S", "p", "o", "r", "t", " ", "t", "r", "e", "i", "b", "e", "n">>

\* the fields of the view model that a call of addTask or toggleTask changes
Fields(list, item, failed) == [tasks |-> list, storage |-> item, writeFailed |-> failed]

\* this.tasks = list; this.saveTasks(), on the fields vm
mutate(vm, list) ==
    LET sv == saveTasks(list, vm.storage, quota) IN
    Fields(list, sv.storage, vm.writeFailed \/ ~sv.saved)

\* addTask(text) on the fields vm, with the readings now1 of Date.now() and
\* now2 of new Date()
addTask(vm, text, now1, now2) ==
    IF ~Truthy(text) \/ ~Truthy(JSString(trim(text.s)))
    THEN vm
    ELSE mutate(vm, unshift(vm.tasks, TaskModel(JSNumber(now1), JSString(trim(text.s)),
                                                 FALSE, DateOf(now2))))

\* window.debug.addDemoData(): four addTask, toggleTask(tasks[1].id), render.
\* The eight readings of the clock do not run backwards.
AddDemoData ==
    /\ Len(tasks) <= MaxStoredBeforeDemo
    /\ \E a1 \in Clock, a2 \in Clock :
        /\ a1 <= a2 /\ ClockReading(tasks, a1)
        /\ \E b1 \in Clock, b2 \in Clock :
            /\ a2 <= b1 /\ b1 <= b2
            /\ \E c1 \in Clock, c2 \in Clock :
                /\ b2 <= c1 /\ c1 <= c2
                /\ \E d1 \in Clock, d2 \in Clock :
                    /\ c2 <= d1 /\ d1 <= d2
                    /\ LET vm1 == addTask(Fields(tasks, storage, writeFailed),
                                          JSString(Einkaufen), a1, a2)
                           vm2 == addTask(vm1, JSString(Email), b1, b2)
                           vm3 == addTask(vm2, JSString(Projekt), c1, c2)
                           vm4 == addTask(vm3, JSString(Sport), d1, d2)
                           r == toggleTask(vm4.tasks, vm4.tasks[2].id)
                           vm5 == IF r.found THEN mutate(vm4, r.tasks) ELSE vm4
                       IN  /\ tasks' = vm5.tasks
                           /\ storage' = vm5.storage
                           /\ writeFailed' = vm5.writeFailed
                           /\ last' = Called("toggleTask", RetBoolean(r.found))
                           /\ view' = Handled(render(view, vm5.tasks, currentFilter),
                                              "addDemoData", "toggleTask")
                           /\ UNCHANGED <<currentFilter, quota>>

\* window.debug.clearAll(), with the answer to confirm()
DebugClearAll(answer) ==
    IF answer
    THEN /\ ClearAllTasks
         /\ view' = Handled(render(view, tasks', currentFilter'), "clearAll", "clearAllTasks")
    ELSE /\ view' = Handled(view, "clearAll", "none")
         /\ ViewModelUnchanged

-----------------------------------------------------------------------------
(* The store with storage that takes every list *)

\* the fields of a TaskViewModel in a tab that is not the one acting
Instance(list, filter, failed) ==
    [tasks |-> list, currentFilter |-> filter, writeFailed |-> failed]

\* no second tab is open
NoInstance == Instance(<<>>, "all", FALSE)

Init ==
    /\ \E item \in InitialItems : Construct(item, MaxTasks)
    /\ other = NoInstance
    /\ view = NoView

Next ==
    \/ \E text \in Texts : AddTask(text) /\ UNCHANGED <<other, view>>
    \/ \E id \in Ids : ToggleTask(id) /\ UNCHANGED <<other, view>>
    \/ \E id \in Ids : DeleteTask(id) /\ UNCHANGED <<other, view>>
    \/ ClearAllTasks /\ UNCHANGED <<other, view>>
    \/ \E filter \in Filters : SetFilter(filter) /\ UNCHANGED <<other, view>>
    \/ GetFilteredTasks /\ UNCHANGED <<other, view>>
    \/ GetStats /\ UNCHANGED <<other, view>>
    \/ Reload /\ UNCHANGED <<other, view>>

Spec == Init /\ [][Next]_vars

(* The store with storage that is full (quota 0) or takes all but the       *)
(* longest list                                                            *)

InitQuota ==
    /\ \E item \in InitialItems, q \in {0, MaxTasks - 1} : Construct(item, q)
    /\ other = NoInstance
    /\ view = NoView

NextQuota ==
    \/ \E text \in Texts : AddTask(text) /\ UNCHANGED <<other, view>>
    \/ \E id \in Ids : ToggleTask(id) /\ UNCHANGED <<other, view>>
    \/ \E id \in Ids : DeleteTask(id) /\ UNCHANGED <<other, view>>
    \/ ClearAllTasks /\ UNCHANGED <<other, view>>
    \/ Reload /\ UNCHANGED <<other, view>>

SpecQuota == InitQuota /\ [][NextQuota]_vars

(* Two tabs over the same item.  Each tab has its own TaskViewModel; the    *)
(* variables tasks, currentFilter and writeFailed are those of the tab     *)
(* whose script runs, other holds those of the tab that waits.  Scripts    *)
(* run to completion, so the calls of the two tabs interleave call by call. *)

\* what the user of a tab types: a text that is taken and one that is not
TabTexts == {JSString(<<"a">>), JSString(<<" ">>)}

\* both tabs were opened over the item
InitTabs ==
    \E item \in InitialItems :
        /\ Construct(item, MaxTasks)
        /\ other = Instance(loadTasks(<<>>, item).tasks, "all", FALSE)
        /\ view = NoView

\* the other tab's script runs next
SwitchTab ==
    /\ tasks' = other.tasks
    /\ currentFilter' = other.currentFilter
    /\ writeFailed' = other.writeFailed
    /\ other' = Instance(tasks, currentFilter, writeFailed)
    /\ last' = Called("switchTab", RetUndefined)
    /\ UNCHANGED <<storage, quota, view>>

NextTabs ==
    \/ \E text \in TabTexts : AddTask(text) /\ Len(tasks') <= MaxTabTasks /\ UNCHANGED <<other, view>>
    \/ \E id \in Ids : ToggleTask(id) /\ UNCHANGED <<other, view>>
    \/ \E id \in Ids : DeleteTask(id) /\ UNCHANGED <<other, view>>
    \/ ClearAllTasks /\ UNCHANGED <<other, view>>
    \/ Reload /\ UNCHANGED <<other, view>>
    \/ SwitchTab

SpecTabs == InitTabs /\ [][NextTabs]_vars


-----------------------------------------------------------------------------
(* The page with its view *)

\* the page is opened over the item
InitSwipe ==
    /\ \E item \in {NoItem, JSONText("array", <<JSONNumber>>)} : Construct(item, MaxTasks)
    /\ other = NoInstance
    /\ view = NewView(tasks)

NextSwipe ==
    \/ \E text \in TabTexts : HandleAddTask(text) /\ UNCHANGED other
    \/ \E target \in 0 .. Len(view.items), x \in TouchStartXs :
          HandleTouchStart(target, x, 0) /\ UNCHANGED other
    \/ \E x \in TouchXs, y \in TouchYs : HandleTouchMove(x, y) /\ UNCHANGED other
    \/ HandleTouchEnd /\ UNCHANGED other
    \/ HideSwipeIndicator /\ UNCHANGED other

SpecSwipe == InitSwipe /\ [][NextSwipe]_vars

\* the page is opened over the item, and the item takes the demo data
InitDemo ==
    /\ \E item \in InitialItems : Construct(item, MaxStoredBeforeDemo + 4)
    /\ other = NoInstance
    /\ view = NewView(tasks)

NextDemo ==
    \/ \E text \in TabTexts :
          HandleAddTask(text) /\ Len(tasks') <= MaxStoredBeforeDemo /\ UNCHANGED other
    \/ \E filter \in Filters : HandleFilterChange(filter) /\ UNCHANGED other
    \/ AddDemoData /\ UNCHANGED other
    \/ \E answer \in BOOLEAN : DebugClearAll(answer) /\ UNCHANGED other

SpecDemo == InitDemo /\ [][NextDemo]_vars

-----------------------------------------------------------------------------
(* Properties *)

Mutators == {"addTask", "toggleTask", "deleteTask", "clearAllTasks"}

\* index of the first and of the last character of s that is not a space
FirstInk(s) == CHOOSE i \in 1 .. Len(s) : ~IsSpace(s[i]) /\ \A j \in 1 .. (i - 1) : IsSpace(s[j])

LastInk(s) == CHOOSE i \in 1 .. Len(s) : ~IsSpace(s[i]) /\ \A j \in (i + 1) .. Len(s) : IsSpace(s[j])

\* text is a string that is not empty after trimming
HasInk(text) == text.tag = "string" /\ \E i \in 1 .. Len(text.s) : ~IsSpace(text.s[i])

HasId(list, id) == \E i \in 1 .. Len(list) : list[i].id = id

FirstWithId(list, id) ==
    CHOOSE i \in 1 .. Len(list) : list[i].id = id /\ \A j \in 1 .. (i - 1) : list[j].id # id

RemoveAt(list, i) == SubSeq(list, 1, i - 1) \o SubSeq(list, i + 1, Len(list))

\* what a fresh store instance holds after construction over the item
FreshTasks(item) == loadTasks(<<>>, item).tasks

\* C1: addTask(text) with a text that is not empty after trimming returns
\* true, puts a new task with completed = false and the trimmed text at
\* position 0, and the tasks stored before follow it unchanged, in order.
C1_AddTaskPrepends ==
    [][\A text \in Texts :
          (last'.op = "addTask" /\ HasInk(text) /\ AddTask(text)) =>
              /\ last' = Called("addTask", RetBoolean(TRUE))
              /\ Len(tasks') = Len(tasks) + 1
              /\ tasks'[1].completed = FALSE
              /\ tasks'[1].text = JSString(SubSeq(text.s, FirstInk(text.s), LastInk(text.s)))
              /\ Tail(tasks') = tasks]_vars

C1_Witness ==
    /\ last = Called("addTask", RetBoolean(TRUE))
    /\ Len(tasks) = 2
    /\ tasks[1].text = JSString(<<"a", " ", "b">>)
    /\ ~tasks[1].completed
    /\ tasks[2].completed

\* C2: addTask(text) with an empty or whitespace-only text returns false,
\* leaves tasks and currentFilter unchanged and does not write the item.
C2_AddTaskRejectsBlank ==
    [][\A text \in Texts :
          (last'.op = "addTask" /\ ~HasInk(text) /\ AddTask(text)) =>
              /\ last' = Called("addTask", RetBoolean(FALSE))
              /\ UNCHANGED <<tasks, currentFilter, storage, writeFailed>>]_vars

C2_Witness ==
    /\ last = Called("addTask", RetBoolean(FALSE))
    /\ Len(tasks) = 1
    /\ storage = JSONText("array", MapToJSON(tasks))

\* C3: deleteTask(id) on an id that is present removes exactly one task, the
\* first with that id, and shortens tasks by exactly 1.
C3_DeleteRemovesOne ==
    [][\A id \in Ids :
          (last'.op = "deleteTask" /\ HasId(tasks, id) /\ DeleteTask(id)) =>
              /\ Len(tasks') = Len(tasks) - 1
              /\ tasks' = RemoveAt(tasks, FirstWithId(tasks, id))]_vars

\* C4: toggleTask(id) called twice in succession on an existing id returns
\* true both times and leaves tasks as it was before the first call.
C4_ToggleTwiceRestores ==
    \A id \in Ids :
        HasId(tasks, id) =>
            LET first == toggleTask(tasks, id)
                second == toggleTask(first.tasks, id)
            IN  /\ first.found /\ second.found
                /\ first.tasks # tasks
                /\ second.tasks = tasks

C4_Witness ==
    /\ last = Called("toggleTask", RetBoolean(TRUE))
    /\ Len(tasks) = 2
    /\ tasks[1].id = tasks[2].id
    /\ tasks[1].completed /\ ~tasks[2].completed

\* C5: for an id no stored task has, toggleTask(id) returns false and
\* deleteTask(id) returns normally; tasks, currentFilter and the item are
\* unchanged and no exception escapes.
C5_LookupMissIsNoOp ==
    [][\A id \in Ids :
          ~HasId(tasks, id) =>
              /\ (last'.op = "toggleTask" /\ ToggleTask(id)) =>
                    /\ last' = Called("toggleTask", RetBoolean(FALSE))
                    /\ UNCHANGED <<tasks, currentFilter, storage>>
              /\ (last'.op = "deleteTask" /\ DeleteTask(id)) =>
                    /\ last' = Called("deleteTask", RetUndefined)
                    /\ UNCHANGED <<tasks, currentFilter, storage>>]_vars

C5_Witness ==
    /\ last = Called("deleteTask", RetUndefined)
    /\ Len(tasks) = MaxTasks
    /\ tasks[1].id # tasks[2].id

\* C6: when no write of this instance has failed, a fresh instance built
\* from the item holds the same tasks, field by field and in the same order.
C6_ReloadRoundTrip ==
    ~writeFailed => FreshTasks(storage) = tasks

C6_Witness ==
    /\ ~writeFailed
    /\ last.op \in Mutators
    /\ Len(tasks) = 2
    /\ tasks[1].createdAt = DateOf(1000)
    /\ tasks[2].createdAt = DateOf(999)
    /\ tasks[2].completed

\* the item holds the JSON text of an array of records
IsArrayOfRecords(item) ==
    /\ item.kind = "string"
    /\ item.jt = "array"
    /\ \A i \in 1 .. Len(item.elems) : item.elems[i].jt = "object"

\* C7: constructing the store over an item that is absent or is not the
\* text of an array of records ends with tasks = [] and no exception.
C7_CorruptItemLoadsEmpty ==
    (last.op = "constructor" /\ ~IsArrayOfRecords(storage)) =>
        /\ tasks = <<>>
        /\ last.ret # RetThrown

\* the write of list fails: it exceeds the quota, or a task cannot be
\* serialized
WriteFails(list) ==
    \/ Len(list) > quota
    \/ \E i \in 1 .. Len(list) : ~list[i].createdAt.valid

C9_FilteredTasks ==
    [][last'.op = "getFilteredTasks" =>
          /\ last'.ret =
                RetArray(CASE currentFilter = "active" ->
                                SelectSeq(tasks, LAMBDA t : ~t.completed)
                           [] currentFilter = "completed" ->
                                SelectSeq(tasks, LAMBDA t : t.completed)
                           [] OTHER -> tasks)
          /\ UNCHANGED <<tasks, currentFilter, storage>>]_vars

C9_Witness ==
    /\ last.op = "getFilteredTasks"
    /\ currentFilter = "active"
    /\ Len(tasks) = 2
    /\ tasks[1].completed
    /\ last.ret.list = <<tasks[2]>>

\* C10: getStats() returns total = tasks.length, completed = the number of
\* completed tasks, active = the number of tasks not completed, and
\* total = completed + active.
C10_Stats ==
    LET st == getStats(tasks)
        done == {i \in 1 .. Len(tasks) : tasks[i].completed}
        open == {i \in 1 .. Len(tasks) : ~tasks[i].completed}
    IN  /\ st.kind = "stats"
        /\ st.total = Len(tasks)
        /\ st.completed = Cardinality(done)
        /\ st.active = Cardinality(open)
        /\ st.total = st.completed + st.active
        /\ last.op = "getStats" => last.ret = st

C10_Witness ==
    /\ last.op = "getStats"
    /\ last.ret.total = 2
    /\ last.ret.completed = 1
    /\ last.ret.active = 1

\* C11: no two tasks in tasks have the same id.
C11_UniqueIds ==
    \A i, j \in 1 .. Len(tasks) : i # j => tasks[i].id # tasks[j].id

\* s is a string that is not empty and has no space at either end
IsTrimmedText(v) ==
    /\ v.tag = "string"
    /\ v.s # <<>>
    /\ ~IsSpace(v.s[1]) /\ ~IsSpace(v.s[Len(v.s)])

\* C12: every task in tasks has a text that is trimmed and not empty, also
\* right after the tasks were loaded from the item.
C12_TextsTrimmedNonEmpty ==
    \A i \in 1 .. Len(tasks) : IsTrimmedText(tasks[i].text)

\* the same task, whatever its completed flag
SameTask(t, u) == t.id = u.id /\ t.text = u.text /\ t.createdAt = u.createdAt

\* a is b with some tasks left out: the tasks of a are tasks of b, in the
\* order they have in b; with flags, their completed flags are the same too
RECURSIVE IsSubSeqOf(_, _, _)
IsSubSeqOf(a, b, flags) ==
    IF a = <<>> THEN TRUE
    ELSE IF b = <<>> THEN FALSE
    ELSE IF SameTask(Head(a), Head(b)) /\ (flags => Head(a).completed = Head(b).completed)
         THEN IsSubSeqOf(Tail(a), Tail(b), flags)
         ELSE IsSubSeqOf(a, Tail(b), flags)

ViewModelCalls ==
    {"addTask", "toggleTask", "deleteTask", "clearAllTasks",
     "setFilter", "getFilteredTasks", "getStats"}

C14_OnlyCompletedChanges ==
    [][/\ (last'.op \in ViewModelCalls \ {"toggleTask"}) =>
             IF Len(tasks') > Len(tasks)
             THEN Tail(tasks') = tasks
             ELSE IsSubSeqOf(tasks', tasks, TRUE)
       /\ \A id \in Ids :
             (last'.op = "toggleTask" /\ HasId(tasks, id) /\ ToggleTask(id)) =>
                 /\ last'.ret = RetBoolean(TRUE)
                 /\ Len(tasks') = Len(tasks)
                 /\ currentFilter' = currentFilter
                 /\ \A k \in 1 .. Len(tasks) :
                       /\ SameTask(tasks'[k], tasks[k])
                       /\ (tasks'[k].completed # tasks[k].completed)
                             <=> (k = FirstWithId(tasks, id))]_vars

C14_Witness ==
    /\ last = Called("toggleTask", RetBoolean(TRUE))
    /\ Len(tasks) = 2
    /\ tasks[1].id = tasks[2].id
    /\ tasks[1].completed /\ ~tasks[2].completed
    /\ currentFilter = "completed"

\* C16: setFilter(f) stores f as it is, whatever f is, and leaves tasks and
\* the item alone; addTask, toggleTask, deleteTask and clearAllTasks leave
\* currentFilter alone; a store that has just been constructed has
\* currentFilter = 'all', whatever the item holds.
C16_FilterIsSessionState ==
    /\ [](last.op = "constructor" => currentFilter = "all")
    /\ [][/\ \A f \in Filters :
                (last'.op = "setFilter" /\ SetFilter(f)) =>
                    /\ currentFilter' = f
                    /\ UNCHANGED <<tasks, storage, writeFailed>>
          /\ last'.op \in Mutators => currentFilter' = currentFilter
          /\ currentFilter' # currentFilter => last'.op \in {"setFilter", "constructor"}]_vars

C16_Witness ==
    /\ last = Called("setFilter", RetUndefined)
    /\ currentFilter = "done"
    /\ Len(tasks) = 2
    /\ storage = JSONText("array", MapToJSON(tasks))

C17_SwipeDeletesPast150 ==
    /\ [](view.event = "touchend" => view.currentSwipeElement = 0)
    /\ [][(view'.event = "touchend" /\ view.currentSwipeElement # 0) =>
             LET k == view.currentSwipeElement IN
             IF view'.call = "deleteTask"
             THEN /\ view.moved
                  /\ Abs(view.lastDeltaX) > SwipeDeleteDistance
                  /\ tasks' = filterNotId(tasks, parseInt(view.items[k].id))
             ELSE /\ tasks' = tasks
                  /\ view'.items[k].transform = <<>>
                  /\ view'.items[k].opacity = JSString(<<>>)]_vars

\* C18: after window.debug.addDemoData(), whatever the store held and
\* whatever the clock read, the four demo tasks are the first four of tasks,
\* the one added last first, the second of them ('Projekt-Präsentation
\* vorbereiten') is completed and the other three are not.
C18_DemoData ==
    view.event = "addDemoData" =>
        /\ Len(tasks) >= 4
        /\ tasks[1].text = JSString(Sport)
        /\ tasks[2].text = JSString(Projekt)
        /\ tasks[3].text = JSString(Email)
        /\ tasks[4].text = JSString(Einkaufen)
        /\ tasks[2].completed
        /\ ~tasks[1].completed /\ ~tasks[3].completed /\ ~tasks[4].completed

====
